---- MODULE Spec2Model ----
(***************************************************************************)
(* State-machine model of three parts of RAPter (globOpt):                 *)
(*   - correspCli, the greedy primitive-to-primitive matcher               *)
(*     (src/globOpt/src/correspondence.cpp);                               *)
(*   - LinePrimitive::getExtent and its resilient consumer                 *)
(*     LinePrimitive::draw (linePrimitive.h);                              *)
(*   - LinePrimitive::generateFrom (linePrimitive.h).                      *)
(* Each part has its own specification (SpecMatch, SpecExtent, SpecDraw,   *)
(* SpecGen); the variables of the other parts stay at their idle values.   *)
(***************************************************************************)
EXTENDS Integers, Sequences, FiniteSets, TLC

VARIABLES
    \* ---- correspCli ----
    pc,             \* position in correspCli
    exists,         \* the input files boost::filesystem::exists() finds
    prims_mapA,     \* gid -> number of primitives in that patch of A
    prims_mapB,     \* gid -> number of primitives in that patch of B
    bi,             \* number of (A,B) pairs the cost loops have handled
    costs,          \* CostMap: entries [key, cost] kept in key order
    cost_list,      \* std::vector<CostEntry>
    i,              \* index of the greedy scan (0-based, as in the code)
    taken_primsA,   \* std::set<GidLid>
    taken_primsB,   \* std::set<GidLid>
    corresps,       \* CorrespT: entries [a, b] kept in key (a) order
    chose_log,      \* the "chose ..." lines on stdout, in order
    dup_diag,       \* "duplicate choice...should not happen!" was printed
    corresp_f,      \* ./corresp.csv: [created, header, rows]
    ei,             \* number of correspondences the print loop has written
    result,         \* return value of correspCli
    tag_oob,        \* a setTag loop indexed points_primitives past its end
    norms,          \* (A primitive, B primitive) -> ||posA - posB|| of the input
    \* ---- LinePrimitive::getExtent / draw ----
    line,           \* the primitive: [pos, dir]
    extents,        \* the primitive's _extents cache: [updated, value]
    minMax,         \* the caller's output container
    err,            \* what the last getExtent call returned; draw's local err
    on_line_cloud,  \* the projected inliers of the last computing call
    call,           \* what the last getExtent call did
    dpc,            \* position in draw
    dargs,          \* the arguments of the running draw: [cloud, radius, indices]
    it,             \* draw's it
    tmp_radius,     \* draw's tmp_radius
    thr_log,        \* the thresholds draw passed to getExtent, in order
    fallback,       \* draw took the "it >= max_it" branch
    segment,        \* ps, the two points draw hands to the visualizer, in tenths
    mm_div,         \* the coordinates of minMax are minMax / mm_div
    dret,           \* what the last draw returned to its caller
    \* ---- LinePrimitive::generateFrom ----
    self,           \* the primitive generateFrom is called on
    other,          \* its argument other
    gargs,          \* [closest_angle_id, angles, angle_multiplier]
    out,            \* the created output primitive
    gret,           \* generateFrom's return value
    \* ---- LinePrimitive::getSpatialSignificance ----
    sig_prim,       \* the primitive getSpatialSignificance is called on
    sig_points,     \* the points: a sequence of [pos, gid]
    sig_in,         \* the caller's vector in, which is also what is returned
    sig_diag,       \* "NO points in primitive" was printed by the last call
    sig_args,       \* [called, indices, return_squared, pop] of the last call
    \* ---- getExtent called by several threads on the primitive line ----
    thr             \* per thread: [pc, cloud, threshold, res, mm, ret, last]

matchVars  == <<pc, exists, prims_mapA, prims_mapB, bi, costs, cost_list, i,
                taken_primsA, taken_primsB, corresps, chose_log, dup_diag,
                corresp_f, ei, result, tag_oob,
                norms>>
extentVars == <<line, extents, minMax, err, on_line_cloud, call>>
drawVars   == <<dpc, dargs, it, tmp_radius, thr_log, fallback, segment, mm_div,
                dret>>
genVars    == <<self, other, gargs, out, gret>>
sigVars    == <<sig_prim, sig_points, sig_in, sig_diag, sig_args>>
concVars   == <<thr>>
vars       == <<matchVars, extentVars, drawVars, genVars, sigVars, concVars>>
notMatch   == <<extentVars, drawVars, genVars, sigVars, concVars>>
notExtent  == <<matchVars, drawVars, genVars, sigVars, concVars>>
notDraw    == <<matchVars, genVars, sigVars, concVars>>
notGen     == <<matchVars, extentVars, drawVars, sigVars, concVars>>
notSig     == <<matchVars, extentVars, drawVars, genVars, concVars>>
notConc    == <<matchVars, drawVars, genVars, sigVars>>

\* ------------------------------------------------------------------------
\* Bounds of the model
\* ------------------------------------------------------------------------
MaxA == 2       \* primitives in collection A
MaxB == 2       \* primitives in collection B
MaxPairs == 6   \* pairs of an A and a B primitive (entries of the cost table)
MaxCloud == 1   \* points of the cloud, and rows of an association file

\* Group ids a primitive file may use.
Gids == {0, 1}

\* Values ||posA - posB|| takes on the inputs considered.
CostValues == {1, 2, 5, 10}

EXIT_SUCCESS == 0
EXIT_FAILURE == 1
NoResult == EXIT_SUCCESS - 1   \* correspCli has not returned yet

\* The five files correspCli needs: argv[1] .. argv[5].
RequiredFiles == {"primsA", "assocA", "primsB", "assocB", "cloud"}

\* ------------------------------------------------------------------------
\* correspCli: identities, keys and their orderings
\* ------------------------------------------------------------------------

\* GidLid is std::pair<int,int>; its operator< is lexicographic.
GidLidLess(x, y) == \/ x[1] < y[1]
                    \/ (x[1] = y[1] /\ x[2] < y[2])

\* CostKey is std::pair<GidLid,GidLid>; its operator< is lexicographic.
CostKeyLess(k, l) == \/ GidLidLess(k[1], l[1])
                     \/ (k[1] = l[1] /\ GidLidLess(k[2], l[2]))

\* The order of a pair with its members swapped, std::pair<CostKey,Scalar>:
\* by key, then cost.
CostEntryLessKeyFirst(e, f) ==
    \/ CostKeyLess(e.key, f.key)
    \/ (e.key = f.key /\ e.cost < f.cost)

CostEntryLessKeyDesc(e, f) == \/ e.cost < f.cost
                              \/ (e.cost = f.cost /\ CostKeyLess(f.key, e.key))

CostEntryGreater(e, f) == \/ e.cost > f.cost
                          \/ (e.cost = f.cost /\ CostKeyLess(f.key, e.key))

\* CostEntry is std::pair<Scalar,CostKey>: std::sort orders by cost, then key.
CostEntryLess(e, f) == \/ e.cost < f.cost
                       \/ (e.cost = f.cost /\ CostKeyLess(e.key, f.key))

\* The primitive collections a file can hold: gid -> size of the patch.
Collections(max) ==
    {m \in [Gids -> 0..max] : m[0] + m[1] <= max}

NumPrims(m) == m[0] + m[1]

\* The identities of a collection in iteration order: patches by ascending
\* gid (std::map order), lid counting from 0 inside each patch.
RECURSIVE IdsFrom(_, _)
IdsFrom(m, gids) ==
    IF gids = {} THEN <<>>
    ELSE LET g == CHOOSE x \in gids : \A y \in gids : x <= y
         IN  [l \in 1..m[g] |-> <<g, l - 1>>] \o IdsFrom(m, gids \ {g})

IdsOfLidZero(m) ==
    LET s == IdsFrom(m, Gids)
    IN  [k \in 1..Len(s) |-> <<s[k][1], 0>>]

IdsOf(m) == IdsFrom(m, Gids)

\* Only the pairs whose two primitives are in groups of the same id.
EnumPairsSameGid(mA, mB) ==
    LET a == IdsOf(mA)
        b == IdsOf(mB)
        n == Len(b)
        all == [k \in 1..(Len(a) * n) |->
                   <<a[((k - 1) \div n) + 1], b[((k - 1) % n) + 1]>>]
    IN  SelectSeq(all, LAMBDA pr : pr[1][1] = pr[2][1])

\* The (A,B) identity pairs in the order the four nested loops visit them.
EnumPairs(mA, mB) ==
    LET a == IdsOf(mA)
        b == IdsOf(mB)
        n == Len(b)
    IN  [k \in 1..(Len(a) * n) |-> <<a[((k - 1) \div n) + 1], b[((k - 1) % n) + 1]>>]

\* ------------------------------------------------------------------------
\* correspCli: the two std::map containers
\* ------------------------------------------------------------------------

\* Position of the first entry whose key is not less than k, in a sequence
\* kept in ascending key order (std::map::lower_bound).
CostsLowerBound(m, k) ==
    1 + Cardinality({p \in 1..Len(m) : CostKeyLess(m[p].key, k)})

CorrespsLowerBound(m, k) ==
    1 + Cardinality({p \in 1..Len(m) : GidLidLess(m[p].a, k)})

InsertAt(s, p, e) == SubSeq(s, 1, p - 1) \o <<e>> \o SubSeq(s, p, Len(s))

\* costs[ key ] = c  (std::map::operator[] followed by assignment)
CostsAssign(m, key, c) ==
    LET p == CostsLowerBound(m, key)
        e == [key |-> key, cost |-> c]
    IN  IF p <= Len(m) /\ m[p].key = key THEN [m EXCEPT ![p] = e]
        ELSE InsertAt(m, p, e)

CorrespsAppend(m, a, b) == Append(m, [a |-> a, b |-> b])

\* corresps[ gidLidA ] = gidLidB
CorrespsAssign(m, a, b) ==
    LET p == CorrespsLowerBound(m, a)
        e == [a |-> a, b |-> b]
    IN  IF p <= Len(m) /\ m[p].a = a THEN [m EXCEPT ![p] = e]
        ELSE InsertAt(m, p, e)

\* corresps.find(gidLidA) != corresps.end()
CorrespsHas(m, a) == \E p \in 1..Len(m) : m[p].a = a

\* ------------------------------------------------------------------------
\* correspCli: the sorted cost list
\* ------------------------------------------------------------------------

\* cost_list.push_back( CostEntry(it->second, it->first) ) over the map.
Flatten(m) == [p \in 1..Len(m) |-> [cost |-> m[p].cost, key |-> m[p].key]]

RECURSIVE InsertSorted(_, _)
InsertSorted(s, e) ==
    IF s = <<>> THEN <<e>>
    ELSE IF CostEntryLess(e, Head(s)) THEN <<e>> \o s
    ELSE <<Head(s)>> \o InsertSorted(Tail(s), e)

KeepMapOrder(s) == s

\* std::sort( cost_list.begin(), cost_list.end() )
RECURSIVE SortCostList(_)
SortCostList(s) ==
    IF s = <<>> THEN <<>>
    ELSE InsertSorted(SortCostList(SubSeq(s, 1, Len(s) - 1)), s[Len(s)])

FreeOnSideA(tA, tB, a, b) == a \notin tA

FreeOnSideB(tA, tB, a, b) == b \notin tB

EitherFree(tA, tB, a, b) == (a \notin tA) \/ (b \notin tB)

\* "use, if *both* free to pair up"
BothFree(tA, tB, a, b) == (a \notin tA) /\ (b \notin tB)

\* ------------------------------------------------------------------------
\* estimateDistance and the positions of the input primitives
\* ------------------------------------------------------------------------

\* The pairs of a primitive of A and a primitive of B.
PrimPairs(mA, mB) ==
    {<<IdsOf(mA)[x], IdsOf(mB)[y]>> : x \in 1..NumPrims(mA), y \in 1..NumPrims(mB)}

\* The positions are points of R^3, and the matcher sees them only through
\* the norms ||posA - posB||.  A table n of such norms can come from points
\* exactly when, for every two primitives of one side, some distance d between
\* the two is in the triangle range [|n1 - n2|, n1 + n2] of every primitive of
\* the other side; that is, the largest |n1 - n2| is at most the least
\* n1 + n2.  (Given d, each primitive of the other side is placed on its own
\* triangle.)  The condition is necessary for any table and sufficient when
\* one side has at most two primitives, which MaxPairs ensures.  For two
\* primitives per side it says that no cost exceeds the sum of the other three.
Realizable(n, mA, mB) ==
    LET A == {IdsOf(mA)[x] : x \in 1..NumPrims(mA)}
        B == {IdsOf(mB)[y] : y \in 1..NumPrims(mB)}
        Diff(u, v) == IF u < v THEN v - u ELSE u - v
    IN  /\ \A a1, a2 \in A : \A b1, b2 \in B :
              Diff(n[<<a1, b1>>], n[<<a2, b1>>]) <= n[<<a1, b2>>] + n[<<a2, b2>>]
        /\ \A b1, b2 \in B : \A a1, a2 \in A :
              Diff(n[<<a1, b1>>], n[<<a1, b2>>]) <= n[<<a2, b1>>] + n[<<a2, b2>>]

\* The tables of norms the positions of two collections can have.
NormTables(mA, mB) ==
    {n \in [PrimPairs(mA, mB) -> CostValues] : Realizable(n, mA, mB)}

\* (prim.pos() - gt_prim.pos()).norm()
estimateDistance(prim, gt_prim) == norms[<<prim, gt_prim>>]

\* ------------------------------------------------------------------------
\* correspCli: the steps
\* ------------------------------------------------------------------------
NoFile == [created |-> FALSE, header |-> FALSE, rows |-> <<>>]
EmptyMap == [g \in Gids |-> 0]

MatchInit ==
    /\ pc = "start"
    /\ exists = {}
    /\ prims_mapA = EmptyMap
    /\ prims_mapB = EmptyMap
    /\ bi = 0
    /\ costs = <<>>
    /\ cost_list = <<>>
    /\ i = 0
    /\ taken_primsA = {}
    /\ taken_primsB = {}
    /\ corresps = <<>>
    /\ chose_log = <<>>
    /\ dup_diag = FALSE
    /\ corresp_f = NoFile
    /\ ei = 0
    /\ result = NoResult
    /\ tag_oob = FALSE
    /\ norms = <<>>

\* -h, --help or argc != 6: print the usage and return err (EXIT_SUCCESS).
PrintUsage ==
    /\ pc = "start"
    /\ pc' = "done"
    /\ result' = EXIT_SUCCESS
    /\ UNCHANGED <<exists, prims_mapA, prims_mapB, bi, costs, cost_list, i,
                   taken_primsA, taken_primsB, corresps, chose_log, dup_diag,
                   corresp_f, ei>>
    /\ UNCHANGED <<tag_oob, norms>>
    /\ UNCHANGED notMatch

\* A parse step that does not look for the cloud file.
ParseInputNoCloudCheck ==
    /\ pc = "start"
    /\ \E present \in SUBSET RequiredFiles :
        /\ exists' = present
        /\ IF RequiredFiles \ {"cloud"} \subseteq present
           THEN pc' = "read" /\ result' = result
           ELSE pc' = "done" /\ result' = EXIT_FAILURE
    /\ UNCHANGED <<prims_mapA, prims_mapB, bi, costs, cost_list, i,
                   taken_primsA, taken_primsB, corresps, chose_log, dup_diag,
                   corresp_f, ei>>
    /\ UNCHANGED <<tag_oob, norms>>
    /\ UNCHANGED notMatch

\* "parse input": the five exists() checks, each returning EXIT_FAILURE.
ParseInput ==
    /\ pc = "start"
    /\ \E present \in SUBSET RequiredFiles :
        /\ exists' = present
        /\ IF present = RequiredFiles
           THEN pc' = "read" /\ result' = result
           ELSE pc' = "done" /\ result' = EXIT_FAILURE
    /\ UNCHANGED <<prims_mapA, prims_mapB, bi, costs, cost_list, i,
                   taken_primsA, taken_primsB, corresps, chose_log, dup_diag,
                   corresp_f, ei>>
    /\ UNCHANGED <<tag_oob, norms>>
    /\ UNCHANGED notMatch

\* "read input".  readPoints fills points and readAssociations fills
\* points_primitives; each of the two setTag loops reads points_primitives[i]
\* for every i < points.size() without looking at points_primitives.size().
\* With fewer associations than points that read is past the end of the
\* vector: the run either dies there, with no return value and no output
\* file, or goes on with whatever it read.  The tags are never looked at by
\* estimateDistance.  readPrimitives then fills prims_mapA and prims_mapB,
\* and with the primitives come their positions, which the matcher uses
\* through the norms ||posA - posB|| only.
ReadInput ==
    /\ pc = "read"
    /\ \E points_size \in 0..MaxCloud, assoc_sizeA \in 0..MaxCloud,
          assoc_sizeB \in 0..MaxCloud :
        LET past_end == assoc_sizeA < points_size \/ assoc_sizeB < points_size
        IN  \/ /\ past_end
               /\ tag_oob' = TRUE
               /\ pc' = "crashed"
               /\ UNCHANGED <<prims_mapA, prims_mapB, norms>>
            \/ /\ tag_oob' = past_end
               /\ \E mA \in Collections(MaxA), mB \in Collections(MaxB) :
                    /\ NumPrims(mA) * NumPrims(mB) <= MaxPairs
                    /\ prims_mapA' = mA
                    /\ prims_mapB' = mB
                    /\ \E n \in NormTables(mA, mB) : norms' = n
               /\ pc' = "build"
    /\ UNCHANGED <<exists, bi, costs, cost_list, i, taken_primsA, taken_primsB,
                   corresps, chose_log, dup_diag, corresp_f, ei, result>>
    /\ UNCHANGED notMatch

\* One pass of the innermost cost loop: estimateDistance returns the norm of
\* the difference of the two positions, and the value goes into costs.
BuildStep ==
    /\ pc = "build"
    /\ bi < Len(EnumPairs(prims_mapA, prims_mapB))
    /\ LET key == EnumPairs(prims_mapA, prims_mapB)[bi + 1]
       IN  costs' = CostsAssign(costs, key, estimateDistance(key[1], key[2]))
    /\ bi' = bi + 1
    /\ UNCHANGED <<pc, exists, prims_mapA, prims_mapB, cost_list, i,
                   taken_primsA, taken_primsB, corresps, chose_log, dup_diag,
                   corresp_f, ei, result>>
    /\ UNCHANGED <<tag_oob, norms>>
    /\ UNCHANGED notMatch

\* The cost loops are over: "create sorted cost keyed list".
SortStep ==
    /\ pc = "build"
    /\ bi >= Len(EnumPairs(prims_mapA, prims_mapB))
    /\ cost_list' = SortCostList(Flatten(costs))
    /\ pc' = "scan"
    /\ i' = 0
    /\ UNCHANGED <<exists, prims_mapA, prims_mapB, bi, costs, taken_primsA,
                   taken_primsB, corresps, chose_log, dup_diag, corresp_f, ei,
                   result>>
    /\ UNCHANGED <<tag_oob, norms>>
    /\ UNCHANGED notMatch

\* One pass of "for each cost entry".
ScanStep ==
    /\ pc = "scan"
    /\ i < Len(cost_list)
    /\ LET costKey == cost_list[i + 1].key
           gidLidA == costKey[1]
           gidLidB == costKey[2]
       IN  IF BothFree(taken_primsA, taken_primsB, gidLidA, gidLidB)
           THEN /\ chose_log' = Append(chose_log, costKey)
                /\ taken_primsA' = taken_primsA \cup {gidLidA}
                /\ taken_primsB' = taken_primsB \cup {gidLidB}
                /\ dup_diag' = (dup_diag \/ CorrespsHas(corresps, gidLidA))
                /\ corresps' = CorrespsAssign(corresps, gidLidA, gidLidB)
           ELSE UNCHANGED <<chose_log, taken_primsA, taken_primsB, dup_diag,
                            corresps>>
    /\ i' = i + 1
    /\ UNCHANGED <<pc, exists, prims_mapA, prims_mapB, bi, costs, cost_list,
                   corresp_f, ei, result>>
    /\ UNCHANGED <<tag_oob, norms>>
    /\ UNCHANGED notMatch

\* "print": saveBackup, open ./corresp.csv, write the two header lines; an
\* ofstream that did not open ends the run with EXIT_FAILURE.
OpenOutput ==
    /\ pc = "scan"
    /\ i >= Len(cost_list)
    /\ \E is_open \in BOOLEAN :
        IF is_open
        THEN /\ corresp_f' = [created |-> TRUE, header |-> TRUE, rows |-> <<>>]
             /\ pc' = "print"
             /\ result' = result
        ELSE /\ corresp_f' = corresp_f
             /\ pc' = "done"
             /\ result' = EXIT_FAILURE
    /\ ei' = 0
    /\ UNCHANGED <<exists, prims_mapA, prims_mapB, bi, costs, cost_list, i,
                   taken_primsA, taken_primsB, corresps, chose_log, dup_diag>>
    /\ UNCHANGED <<tag_oob, norms>>
    /\ UNCHANGED notMatch

\* One pass of "for each correspondence": a row gidA,lidA,gidB,lidB.
PrintRow ==
    /\ pc = "print"
    /\ ei < Len(corresps)
    /\ corresp_f' = [corresp_f EXCEPT
                       !.rows = Append(@, <<corresps[ei + 1].a, corresps[ei + 1].b>>)]
    /\ ei' = ei + 1
    /\ UNCHANGED <<pc, exists, prims_mapA, prims_mapB, bi, costs, cost_list, i,
                   taken_primsA, taken_primsB, corresps, chose_log, dup_diag,
                   result>>
    /\ UNCHANGED <<tag_oob, norms>>
    /\ UNCHANGED notMatch

FinishFailsWhenEmpty ==
    /\ pc = "print"
    /\ ei >= Len(corresps)
    /\ pc' = "done"
    /\ result' = IF Len(corresps) = 0 THEN EXIT_FAILURE ELSE EXIT_SUCCESS
    /\ UNCHANGED <<exists, prims_mapA, prims_mapB, bi, costs, cost_list, i,
                   taken_primsA, taken_primsB, corresps, chose_log, dup_diag,
                   corresp_f, ei>>
    /\ UNCHANGED <<tag_oob, norms>>
    /\ UNCHANGED notMatch

\* Close the file, save subs.csv, return EXIT_SUCCESS.
Finish ==
    /\ pc = "print"
    /\ ei >= Len(corresps)
    /\ pc' = "done"
    /\ result' = EXIT_SUCCESS
    /\ UNCHANGED <<exists, prims_mapA, prims_mapB, bi, costs, cost_list, i,
                   taken_primsA, taken_primsB, corresps, chose_log, dup_diag,
                   corresp_f, ei>>
    /\ UNCHANGED <<tag_oob, norms>>
    /\ UNCHANGED notMatch

MatchNext ==
    \/ PrintUsage
    \/ ParseInput
    \/ ReadInput
    \/ BuildStep
    \/ SortStep
    \/ ScanStep
    \/ OpenOutput
    \/ PrintRow
    \/ Finish

\* ------------------------------------------------------------------------
\* Vectors: Eigen::Matrix<Scalar,3,1> with integer coordinates
\* ------------------------------------------------------------------------
Abs(x) == IF x < 0 THEN -x ELSE x
Sgn(x) == IF x < 0 THEN -1 ELSE IF x > 0 THEN 1 ELSE 0

VAdd(u, v)   == <<u[1] + v[1], u[2] + v[2], u[3] + v[3]>>
VSub(u, v)   == <<u[1] - v[1], u[2] - v[2], u[3] - v[3]>>
VScale(k, v) == <<k * v[1], k * v[2], k * v[3]>>
Dot(u, v)    == u[1] * v[1] + u[2] * v[2] + u[3] * v[3]
Cross(u, v)  == <<u[2] * v[3] - u[3] * v[2],
                  u[3] * v[1] - u[1] * v[3],
                  u[1] * v[2] - u[2] * v[1]>>

\* norm() of a vector along one coordinate axis.  Every point and direction
\* of the model lies in the plane z = 0 (the _2d primitives), so the cross
\* products taken below have a z component only.
AxisNorm(v) == Abs(v[1]) + Abs(v[2]) + Abs(v[3])

\* normalized() of a vector along one coordinate axis.
Normalized(v) == <<Sgn(v[1]), Sgn(v[2]), Sgn(v[3])>>

ZeroVec == <<0, 0, 0>>

\* The unit directions in the plane z = 0 that keep the arithmetic exact.
Dirs == {<<1, 0, 0>>, <<0, 1, 0>>, <<-1, 0, 0>>, <<0, -1, 0>>}

\* ------------------------------------------------------------------------
\* LinePrimitive: geometry
\* ------------------------------------------------------------------------

\* (this->pos() - point).cross( this->dir() ).norm()
getDistance(l, point) == AxisNorm(Cross(VSub(l.pos, point), l.dir))

\* projectPoint: line_pt + k * line_dir with
\* k = (pt.dot(line_dir) - line_pt.dot(line_dir)) / line_dir.dot(line_dir)
projectPoint(l, point) ==
    LET k == (Dot(point, l.dir) - Dot(l.pos, l.dir)) \div Dot(l.dir, l.dir)
    IN  VAdd(l.pos, VScale(k, l.dir))

\* ------------------------------------------------------------------------
\* The extent cache _extents (a member of the parent class Primitive)
\* ------------------------------------------------------------------------
NoExtents == [updated |-> FALSE, value |-> <<>>]

ExtentsIsUpdated(e)  == e.updated
ExtentsGet(e)        == e.value
ExtentsUpdate(e, mm) == [updated |-> TRUE, value |-> mm]

\* ------------------------------------------------------------------------
\* LinePrimitive::getExtent
\* ------------------------------------------------------------------------
\* indices_arg: NULL, or a vector of 0-based point ids.
NullIndices == [given |-> FALSE, ids |-> <<>>]
Indices(s)  == [given |-> TRUE, ids |-> s]

\* The pids the selection loop visits: (*indices_arg)[i] or i, i < stop_at.
VisitedPids(cloud, indices_arg) ==
    IF indices_arg.given THEN indices_arg.ids
    ELSE [k \in 1..Len(cloud) |-> k - 1]

IsInlierLeq(l, point, threshold) == getDistance(l, point) <= threshold

\* this->getDistance( cloud[pid].pos() ) < threshold
IsInlier(l, point, threshold) == getDistance(l, point) < threshold

\* "select inliers"
SelectInliers(l, cloud, threshold, indices_arg) ==
    SelectSeq(VisitedPids(cloud, indices_arg),
              LAMBDA pid : IsInlier(l, cloud[pid + 1], threshold))

\* "project cloud"
ProjectCloud(l, cloud, inliers) ==
    [k \in 1..Len(inliers) |-> projectPoint(l, cloud[inliers[k] + 1])]

\* float dist = p0p1.dot( p0 + line_dir ), with p0p1 = p1 - p0
ScanDist(p0, p1, line_dir) == Dot(VSub(p1, p0), VAdd(p0, line_dir))

\* "select min-max inlier from projected cloud": the loop from point_id on,
\* st = [min_dist, max_dist, min_id, max_id] (ids 0-based).
RECURSIVE MinMaxScan(_, _, _, _)
MinMaxScan(olc, line_dir, point_id, st) ==
    IF point_id >= Len(olc) THEN st
    ELSE LET dist == ScanDist(olc[1], olc[point_id + 1], line_dir)
             nx   == IF dist < st.min_dist
                     THEN [st EXCEPT !.min_dist = dist, !.min_id = point_id]
                     ELSE IF dist > st.max_dist
                     THEN [st EXCEPT !.max_dist = dist, !.max_id = point_id]
                     ELSE st
         IN  MinMaxScan(olc, line_dir, point_id + 1, nx)

ScanStart == [min_dist |-> 0, max_dist |-> 0, min_id |-> 0, max_id |-> 0]

\* An extent whose two ends coincide is given as one point.
ComputeExtentSinglePoint(l, ext, mm, cloud, threshold, indices_arg) ==
    LET inliers == SelectInliers(l, cloud, threshold, indices_arg)
        olc     == ProjectCloud(l, cloud, inliers)
        st      == MinMaxScan(olc, l.dir, 1, ScanStart)
        res     == IF st.min_id = st.max_id THEN <<olc[st.min_id + 1]>>
                   ELSE <<olc[st.min_id + 1], olc[st.max_id + 1]>>
    IN  IF Len(inliers) = 0
        THEN [ret |-> EXIT_FAILURE, minMax |-> mm, extents |-> ext,
              on_line_cloud |-> <<>>, kind |-> "fail"]
        ELSE [ret |-> EXIT_SUCCESS, minMax |-> res,
              extents |-> ExtentsUpdate(ext, res),
              on_line_cloud |-> olc, kind |-> "ok"]

\* getExtent when the cache is not consulted: inliers, projection, scan,
\* output and cache update.
ComputeExtent(l, ext, mm, cloud, threshold, indices_arg) ==
    LET inliers == SelectInliers(l, cloud, threshold, indices_arg)
        olc     == ProjectCloud(l, cloud, inliers)
        st      == MinMaxScan(olc, l.dir, 1, ScanStart)
        res     == <<olc[st.min_id + 1], olc[st.max_id + 1]>>
    IN  IF Len(inliers) = 0
        THEN [ret |-> EXIT_FAILURE, minMax |-> mm, extents |-> ext,
              on_line_cloud |-> <<>>, kind |-> "fail"]
        ELSE [ret |-> EXIT_SUCCESS, minMax |-> res,
              extents |-> ExtentsUpdate(ext, res),
              on_line_cloud |-> olc, kind |-> "ok"]

getExtentNoCache(l, ext, mm, cloud, threshold, indices_arg) ==
    ComputeExtent(l, ext, mm, cloud, threshold, indices_arg)

\* The whole call: the result of getExtent on primitive l with cache ext and
\* output container mm.
getExtent(l, ext, mm, cloud, threshold, indices_arg) ==
    IF ExtentsIsUpdated(ext)
    THEN [ret |-> 0, minMax |-> ExtentsGet(ext), extents |-> ext,
          on_line_cloud |-> <<>>, kind |-> "hit"]
    ELSE ComputeExtent(l, ext, mm, cloud, threshold, indices_arg)

\* ------------------------------------------------------------------------
\* Inputs of the getExtent and draw models
\* ------------------------------------------------------------------------
MaxPts     == 2     \* points in a cloud passed to getExtent directly
MaxDrawPts == 2     \* points in a cloud passed to draw

ExtentPool == {<<-1, 0, 0>>, <<0, 0, 0>>, <<1, 0, 0>>, <<0, 1, 0>>}
DrawPool   == {<<0, 0, 0>>, <<0, 1, 0>>, <<0, 2, 0>>, <<0, 300, 0>>, <<0, 600, 0>>}
Lines      == [pos : {<<0, 0, 0>>, <<0, 1, 0>>}, dir : Dirs]
Thresholds == {1, 2}
Radii      == {1, 2}

SeqsUpTo(S, n) == UNION {[1..k -> S] : k \in 0..n}

RECURSIVE AscendingSeq(_)
AscendingSeq(S) ==
    IF S = {} THEN <<>>
    ELSE LET m == CHOOSE x \in S : \A y \in S : x <= y
         IN  <<m>> \o AscendingSeq(S \ {m})

\* NULL, or the ids of any subset of the cloud.
IndexArgs(cloud) ==
    {NullIndices} \cup {Indices(AscendingSeq(S)) : S \in SUBSET (0..(Len(cloud) - 1))}

\* Some visited point is strictly closer to the line than the threshold.
HasCloserPoint(l, cloud, threshold, indices_arg) ==
    \E k \in 1..Len(VisitedPids(cloud, indices_arg)) :
        getDistance(l, cloud[VisitedPids(cloud, indices_arg)[k] + 1]) < threshold

NoCall == [kind |-> "none", cached_before |-> FALSE, had_closer |-> FALSE,
           container |-> <<>>, prev |-> "none"]

CallRecord(r, cloud, threshold, indices_arg) ==
    [kind          |-> r.kind,
     cached_before |-> extents.updated,
     had_closer    |-> HasCloserPoint(line, cloud, threshold, indices_arg),
     container     |-> minMax,
     prev          |-> call.kind]

ExtentInit ==
    /\ line \in Lines
    /\ extents = NoExtents
    /\ minMax = <<>>
    /\ err = 0
    /\ on_line_cloud = <<>>
    /\ call = NoCall

\* A caller calls getExtent on the primitive with its container minMax.
GetExtent ==
    /\ \E cloud \in SeqsUpTo(ExtentPool, MaxPts), threshold \in Thresholds :
       \E indices_arg \in IndexArgs(cloud) :
        LET r == getExtent(line, extents, minMax, cloud, threshold, indices_arg)
        IN  /\ err' = r.ret
            /\ minMax' = r.minMax
            /\ extents' = r.extents
            /\ on_line_cloud' = r.on_line_cloud
            /\ call' = CallRecord(r, cloud, threshold, indices_arg)
    /\ UNCHANGED line
    /\ UNCHANGED notExtent

\* A caller takes another output container (empty, or holding one point).
NewContainer ==
    /\ \E c \in {<<>>, <<ZeroVec>>} :
        /\ c # minMax
        /\ minMax' = c
    /\ UNCHANGED <<line, extents, err, on_line_cloud, call>>
    /\ UNCHANGED notExtent

ExtentNext == GetExtent \/ NewContainer

\* ------------------------------------------------------------------------
\* LinePrimitive::draw( line, cloud, radius, indices, ... )
\* ------------------------------------------------------------------------
max_it == 10
FallbackDiv == 10   \* minMax[1] = line.pos() + line.dir() / 10.

NoArgs == [cloud |-> <<>>, radius |-> 0, indices |-> NullIndices]

DrawInit ==
    /\ dpc = "idle"
    /\ dargs = NoArgs
    /\ it = 0
    /\ tmp_radius = 0
    /\ thr_log = <<>>
    /\ fallback = FALSE
    /\ segment = <<>>
    /\ mm_div = 1
    /\ dret = NoResult

\* A point in units of 1 / FallbackDiv, which hold line.dir() / 10 exactly.
ToSegment(v) == VScale(FallbackDiv, v)

\* minMax[0] = line.pos(); minMax[1] = line.pos() + line.dir() / 10.
FallbackSegment(l) == <<ToSegment(l.pos), VAdd(ToSegment(l.pos), l.dir)>>

\* The static draw( ps, vptr, ... ): EXIT_FAILURE unless ps holds two points,
\* else what vptr->addLine returns (a bool), converted to int.
drawPoints(ps, added) ==
    IF Len(ps) # 2 THEN EXIT_FAILURE
    ELSE IF added THEN 1 ELSE 0

LoopAgainPostIncrement(size, n) == (size < 2) /\ (n < max_it)

\* (minMax.size() < 2) && (++it < max_it), n being it before the test
LoopAgain(size, n) == (size < 2) /\ (n + 1 < max_it)

\* Entry of draw: the locals minMax, it, max_it, tmp_radius.
DrawBegin ==
    /\ dpc = "idle"
    /\ \E cloud \in SeqsUpTo(DrawPool, MaxDrawPts), radius \in Radii :
       \E indices \in IndexArgs(cloud) :
        dargs' = [cloud |-> cloud, radius |-> radius, indices |-> indices]
    /\ minMax' = <<>>
    /\ it' = 0
    /\ tmp_radius' = dargs'.radius
    /\ thr_log' = <<>>
    /\ mm_div' = 1
    /\ err' = EXIT_SUCCESS
    /\ dret' = NoResult
    /\ dpc' = "loop"
    /\ UNCHANGED <<line, extents, on_line_cloud, call, fallback, segment>>
    /\ UNCHANGED notDraw

\* One pass of the do-while: getExtent, tmp_radius *= 2.f, the loop test.
\* ++it is evaluated only when minMax holds fewer than two points.
DrawIter ==
    /\ dpc = "loop"
    /\ LET r == getExtent(line, extents, minMax, dargs.cloud, tmp_radius, dargs.indices)
       IN  /\ err' = r.ret
           /\ minMax' = r.minMax
           /\ extents' = r.extents
           /\ on_line_cloud' = r.on_line_cloud
           /\ call' = CallRecord(r, dargs.cloud, tmp_radius, dargs.indices)
           /\ it' = IF Len(r.minMax) < 2 THEN it + 1 ELSE it
           /\ dpc' = IF LoopAgain(Len(r.minMax), it) THEN "loop" ELSE "after"
    /\ thr_log' = Append(thr_log, tmp_radius)
    /\ tmp_radius' = tmp_radius * 2
    /\ UNCHANGED <<line, dargs, fallback, segment, mm_div, dret>>
    /\ UNCHANGED notDraw

\* After the loop: the "it >= max_it" branch writes the fallback pair into
\* minMax (held in tenths from then on); the two endpoints go to the
\* visualizer as ps (stretch = 1 leaves them as they are), and what the static
\* draw returns is added to err.
DrawEnd ==
    /\ dpc = "after"
    /\ fallback' = (it >= max_it)
    /\ IF it >= max_it
       THEN /\ minMax' = FallbackSegment(line)
            /\ mm_div' = FallbackDiv
       ELSE /\ minMax' = minMax
            /\ mm_div' = mm_div
    /\ segment' = IF it >= max_it THEN FallbackSegment(line)
                  ELSE <<ToSegment(minMax[1]), ToSegment(minMax[2])>>
    /\ \E added \in BOOLEAN : err' = err + drawPoints(segment', added)
    /\ dpc' = "drawn"
    /\ UNCHANGED <<line, extents, on_line_cloud, call, dargs, it, tmp_radius,
                   thr_log, dret>>
    /\ UNCHANGED notDraw

\* "return err": draw returns and its locals are gone; the primitive keeps
\* its cache.
DrawReturn ==
    /\ dpc = "drawn"
    /\ dpc' = "idle"
    /\ dret' = err
    /\ mm_div' = 1
    /\ dargs' = NoArgs
    /\ it' = 0
    /\ tmp_radius' = 0
    /\ thr_log' = <<>>
    /\ fallback' = FALSE
    /\ segment' = <<>>
    /\ minMax' = <<>>
    /\ err' = 0
    /\ on_line_cloud' = <<>>
    /\ call' = NoCall
    /\ UNCHANGED <<line, extents>>
    /\ UNCHANGED notDraw

DrawNext == DrawBegin \/ DrawIter \/ DrawEnd \/ DrawReturn

\* ------------------------------------------------------------------------
\* LinePrimitive::generateFrom
\* ------------------------------------------------------------------------
TagIds == {"GID", "DIR_GID", "STATUS"}
UNSET     == -1     \* STATUS of a candidate that is not evaluated yet
ACTIVE    == 1      \* a STATUS the optimizer sets
TagAbsent == -2     \* what getTag gives for a tag that was never set

setTag(p, t, v) == [p EXCEPT !.tags[t] = v]
getTag(p, t)    == p.tags[t]

\* LinePrimitive( p0, dir ): the position and the normalized direction.
NewLinePrimitive(p0, dir) ==
    [pos |-> p0, dir |-> Normalized(dir), tags |-> [t \in TagIds |-> TagAbsent]]

\* Eigen::AngleAxisf( angle, UnitZ ) * v, the angle counted in quarter turns.
RotateZ(q, v) ==
    LET r == q % 4
    IN  IF r = 0 THEN v
        ELSE IF r = 1 THEN <<-v[2], v[1], v[3]>>
        ELSE IF r = 2 THEN <<-v[1], -v[2], v[3]>>
        ELSE <<v[2], -v[1], v[3]>>

\* The angle between two unit vectors, in quarter turns: 0, 1 or 2.
angleInRad(u, v) == 1 - Sgn(Dot(u, v))

generateFromSwapped(slf, oth, closest_angle_id, angles, angle_multiplier) ==
    LET angle  == angles[closest_angle_id + 1] * angle_multiplier
        d0     == RotateZ(angle, oth.dir)
        d1     == RotateZ(-angle, oth.dir)
        revert == angleInRad(slf.dir, d0) > angleInRad(slf.dir, d1)
        o0     == NewLinePrimitive(slf.pos, IF revert THEN d1 ELSE d0)
        o1     == setTag(o0, "GID", getTag(oth, "GID"))
        o2     == setTag(o1, "DIR_GID", getTag(slf, "DIR_GID"))
    IN  [out |-> o2, ret |-> TRUE]

generateFromFarther(slf, oth, closest_angle_id, angles, angle_multiplier) ==
    LET angle  == angles[closest_angle_id + 1] * angle_multiplier
        d0     == RotateZ(angle, oth.dir)
        d1     == RotateZ(-angle, oth.dir)
        revert == angleInRad(slf.dir, d0) < angleInRad(slf.dir, d1)
        o0     == NewLinePrimitive(slf.pos, IF revert THEN d1 ELSE d0)
        o1     == setTag(o0, "GID", getTag(slf, "GID"))
        o2     == setTag(o1, "DIR_GID", getTag(oth, "DIR_GID"))
        o3     == setTag(o2, "STATUS", UNSET)
    IN  [out |-> o3, ret |-> TRUE]

generateFromAtOther(slf, oth, closest_angle_id, angles, angle_multiplier) ==
    LET angle  == angles[closest_angle_id + 1] * angle_multiplier
        d0     == RotateZ(angle, oth.dir)
        d1     == RotateZ(-angle, oth.dir)
        revert == angleInRad(slf.dir, d0) > angleInRad(slf.dir, d1)
        o0     == NewLinePrimitive(oth.pos, IF revert THEN d1 ELSE d0)
        o1     == setTag(o0, "GID", getTag(slf, "GID"))
        o2     == setTag(o1, "DIR_GID", getTag(oth, "DIR_GID"))
        o3     == setTag(o2, "STATUS", UNSET)
    IN  [out |-> o3, ret |-> TRUE]

generateFrom(slf, oth, closest_angle_id, angles, angle_multiplier) ==
    LET angle  == angles[closest_angle_id + 1] * angle_multiplier
        d0     == RotateZ(angle, oth.dir)
        d1     == RotateZ(-angle, oth.dir)
        revert == angleInRad(slf.dir, d0) > angleInRad(slf.dir, d1)
        o0     == NewLinePrimitive(slf.pos, IF revert THEN d1 ELSE d0)
        o1     == setTag(o0, "GID", getTag(slf, "GID"))
        o2     == setTag(o1, "DIR_GID", getTag(oth, "DIR_GID"))
        o3     == setTag(o2, "STATUS", UNSET)
    IN  [out |-> o3, ret |-> TRUE]

\* The primitives, angle lists and multipliers generateFrom is tried on.
GenPositions == {<<0, 0, 0>>, <<1, 2, 0>>}
GenPrims ==
    {[pos |-> p, dir |-> d, tags |-> t] :
        p \in GenPositions, d \in Dirs,
        t \in [TagIds -> {0, 1}] \cup
              {[x \in TagIds |-> IF x = "STATUS" THEN UNSET ELSE 0]}}
AngleLists  == {<<0>>, <<1>>, <<0, 1, 2>>}
Multipliers == {1, -1}

NoGenArgs == [closest_angle_id |-> 0, angles |-> <<>>, angle_multiplier |-> 0]

GenInit ==
    /\ self \in GenPrims
    /\ other \in {p \in GenPrims : p.pos = <<1, 2, 0>>}
    /\ gargs = NoGenArgs
    /\ out = NewLinePrimitive(ZeroVec, <<1, 0, 0>>)
    /\ gret = FALSE

GenerateFrom ==
    /\ \E angles \in AngleLists, angle_multiplier \in Multipliers :
       \E closest_angle_id \in 0..(Len(angles) - 1) :
        LET r == generateFrom(self, other, closest_angle_id, angles, angle_multiplier)
        IN  /\ out' = r.out
            /\ gret' = r.ret
            /\ gargs' = [closest_angle_id |-> closest_angle_id, angles |-> angles,
                         angle_multiplier |-> angle_multiplier]
    /\ UNCHANGED <<self, other>>
    /\ UNCHANGED notGen

GenNext == GenerateFrom

\* ------------------------------------------------------------------------
\* Specifications
\* ------------------------------------------------------------------------
IdleLine == [pos |-> ZeroVec, dir |-> <<1, 0, 0>>]
IdlePrim == [pos |-> ZeroVec, dir |-> <<1, 0, 0>>, tags |-> [t \in TagIds |-> 0]]

ExtentIdle ==
    /\ line = IdleLine
    /\ extents = NoExtents
    /\ minMax = <<>>
    /\ err = 0
    /\ on_line_cloud = <<>>
    /\ call = NoCall

GenIdle ==
    /\ self = IdlePrim
    /\ other = IdlePrim
    /\ gargs = NoGenArgs
    /\ out = NewLinePrimitive(ZeroVec, <<1, 0, 0>>)
    /\ gret = FALSE

\* ------------------------------------------------------------------------
\* LinePrimitive::getSpatialSignificance
\* ------------------------------------------------------------------------
MaxSigPts == 2      \* points in the cloud passed to getSpatialSignificance

NoPointsValue == -1 \* in.setConstant( _Scalar(-1.) )
ResetValue    == 0  \* in.setConstant( _Scalar(0.) )

\* A _Scalar: a number, or the NaN of the floating-point arithmetic.
Num(n) == [nan |-> FALSE, v |-> n]
NaN    == [nan |-> TRUE, v |-> 0]

\* std::sqrt on the values the model uses.
Sqrt(x) ==
    IF x.nan \/ x.v < 0 THEN NaN
    ELSE Num(CHOOSE r \in 0..x.v : r * r <= x.v /\ (r + 1) * (r + 1) > x.v)

\* in.setConstant( c )
setConstant(in, c) == [k \in 1..Len(in) |-> Num(c)]

\* processing::getPopulationOf: the ids of the points tagged with gid.
getPopulationOf(gid, points) ==
    SelectSeq([k \in 1..Len(points) |-> k - 1],
              LAMBDA pid : points[pid + 1].gid = gid)

\* processing::eigenDecomposition, eigen_values(0): the values the call can
\* leave there.  A population whose points coincide has no spread; one with
\* distinct points has a positive spread; for an empty population nothing is
\* said, and the value is any scalar.
EigenValues0(points, pop) ==
    IF Len(pop) = 0 THEN {NaN, Num(-1), Num(0), Num(1), Num(4)}
    ELSE IF \A j, k \in 1..Len(pop) : points[pop[j] + 1].pos = points[pop[k] + 1].pos
    THEN {Num(0)}
    ELSE {Num(1), Num(4)}

\* The population the call works on: indices, or the points of the GID.
SigPopulation(prim, points, indices) ==
    IF ~indices.given THEN getPopulationOf(getTag(prim, "GID"), points)
    ELSE indices.ids

\* The whole call, eigen_values0 being what eigenDecomposition produced.
getSpatialSignificance(in, prim, points, indices, return_squared, eigen_values0) ==
    LET pop  == SigPopulation(prim, points, indices)
        diag == Len(pop) = 0
        in1  == IF diag THEN setConstant(in, NoPointsValue) ELSE in
        in2  == setConstant(in1, ResetValue)
        in3  == [in2 EXCEPT ![1] = IF return_squared THEN eigen_values0
                                   ELSE Sqrt(eigen_values0)]
    IN  [in |-> in3, diag |-> diag, pop |-> pop]

SigPool == {<<0, 0, 0>>, <<2, 0, 0>>}
SigPoints == [pos : SigPool, gid : Gids]
SigVectors == {<<Num(7)>>, <<Num(7), Num(7)>>}

NoSigArgs == [called |-> FALSE, indices |-> NullIndices, return_squared |-> FALSE,
              pop |-> <<>>]

SigIdle ==
    /\ sig_prim = IdlePrim
    /\ sig_points = <<>>
    /\ sig_in = <<Num(7)>>
    /\ sig_diag = FALSE
    /\ sig_args = NoSigArgs

SigInit ==
    /\ sig_prim \in {setTag(IdlePrim, "GID", g) : g \in Gids}
    /\ sig_points \in SeqsUpTo(SigPoints, MaxSigPts)
    /\ sig_in \in SigVectors
    /\ sig_diag = FALSE
    /\ sig_args = NoSigArgs

GetSpatialSignificance ==
    /\ \E indices \in IndexArgs(sig_points), return_squared \in BOOLEAN :
       \E ev \in EigenValues0(sig_points, SigPopulation(sig_prim, sig_points, indices)) :
        LET r == getSpatialSignificance(sig_in, sig_prim, sig_points, indices,
                                        return_squared, ev)
        IN  /\ sig_in' = r.in
            /\ sig_diag' = r.diag
            /\ sig_args' = [called |-> TRUE, indices |-> indices,
                            return_squared |-> return_squared, pop |-> r.pop]
    /\ UNCHANGED <<sig_prim, sig_points>>
    /\ UNCHANGED notSig

SigNext == GetSpatialSignificance

\* ------------------------------------------------------------------------
\* LinePrimitive::getExtent called by several threads on one primitive.  The
\* function takes no lock, so a call is three steps that other calls can run
\* between: the test of the cache, the computation on the call's own
\* arguments, and the output with the cache update.
\* ------------------------------------------------------------------------
NumThreads == 2
Threads == 1..NumThreads

ConcClouds == {<<>>, <<<<0, 0, 0>>>>, <<<<1, 0, 0>>>>, <<<<0, 0, 0>>, <<1, 0, 0>>>>}

ThreadIdle == [pc |-> "idle", cloud |-> <<>>, threshold |-> 0, res |-> <<>>,
               mm |-> <<>>, ret |-> 0, last |-> "none"]

ConcInit == thr = [t \in Threads |-> ThreadIdle]

\* A thread that tests the cache whatever is in it.
ConcCheckBlind(t) ==
    /\ thr[t].pc = "idle"
    /\ \E cloud \in ConcClouds, threshold \in Thresholds :
          thr' = [thr EXCEPT ![t].pc = "checked", ![t].cloud = cloud,
                             ![t].threshold = threshold]
    /\ UNCHANGED extentVars
    /\ UNCHANGED notConc

\* if ( this->_extents.isUpdated() ) { minMax = _extents.get(); return 0; }
ConcCheck(t) ==
    /\ thr[t].pc = "idle"
    /\ IF ExtentsIsUpdated(extents)
       THEN thr' = [thr EXCEPT ![t].mm = ExtentsGet(extents), ![t].ret = 0,
                               ![t].last = "hit"]
       ELSE \E cloud \in ConcClouds, threshold \in Thresholds :
              thr' = [thr EXCEPT ![t].pc = "checked", ![t].cloud = cloud,
                                 ![t].threshold = threshold]
    /\ UNCHANGED extentVars
    /\ UNCHANGED notConc

\* "select inliers" to "select min-max inlier": the call's local work.
ConcCompute(t) ==
    /\ thr[t].pc = "checked"
    /\ LET r == ComputeExtent(line, NoExtents, thr[t].mm, thr[t].cloud,
                              thr[t].threshold, NullIndices)
       IN  IF r.ret = EXIT_FAILURE
           THEN thr' = [thr EXCEPT ![t].pc = "idle", ![t].ret = EXIT_FAILURE,
                                   ![t].last = "fail", ![t].cloud = <<>>,
                                   ![t].threshold = 0]
           ELSE thr' = [thr EXCEPT ![t].pc = "computed", ![t].res = r.minMax,
                                   ![t].cloud = <<>>, ![t].threshold = 0]
    /\ UNCHANGED extentVars
    /\ UNCHANGED notConc

\* "output": minMax is filled and this->_extents.update( minMax ) runs.
ConcWrite(t) ==
    /\ thr[t].pc = "computed"
    /\ thr' = [thr EXCEPT ![t].pc = "idle", ![t].mm = thr[t].res,
                          ![t].res = <<>>, ![t].ret = EXIT_SUCCESS,
                          ![t].last = "ok"]
    /\ extents' = ExtentsUpdate(extents, thr[t].res)
    /\ UNCHANGED <<line, minMax, err, on_line_cloud, call>>
    /\ UNCHANGED notConc

ConcNext == \E t \in Threads : ConcCheck(t) \/ ConcCompute(t) \/ ConcWrite(t)

InitMatch  == MatchInit /\ ExtentIdle /\ DrawInit /\ GenIdle /\ SigIdle /\ ConcInit
InitExtent == MatchInit /\ ExtentInit /\ DrawInit /\ GenIdle /\ SigIdle /\ ConcInit
InitDraw   == MatchInit /\ ExtentInit /\ DrawInit /\ GenIdle /\ SigIdle /\ ConcInit
InitGen    == MatchInit /\ ExtentIdle /\ DrawInit /\ GenInit /\ SigIdle /\ ConcInit
InitSig    == MatchInit /\ ExtentIdle /\ DrawInit /\ GenIdle /\ SigInit /\ ConcInit
InitConc   == MatchInit /\ ExtentInit /\ DrawInit /\ GenIdle /\ SigIdle /\ ConcInit

SpecMatch  == InitMatch  /\ [][MatchNext]_vars
SpecExtent == InitExtent /\ [][ExtentNext]_vars
SpecDraw   == InitDraw   /\ [][DrawNext]_vars
SpecGen    == InitGen    /\ [][GenNext]_vars
SpecSig    == InitSig    /\ [][SigNext]_vars
SpecConc   == InitConc   /\ [][ConcNext]_vars

\* ------------------------------------------------------------------------
\* Properties of correspCli
\* ------------------------------------------------------------------------
RowsOf(m) == {<<m[p].a, m[p].b>> : p \in 1..Len(m)}
SeqSet(q) == {q[p] : p \in 1..Len(q)}
ScanOver  == pc \in {"print", "done"} \/ (pc = "scan" /\ i >= Len(cost_list))
Succeeded == pc = "done" /\ result = EXIT_SUCCESS /\ corresp_f.created
InputRead == exists = RequiredFiles /\ pc \notin {"start", "read", "crashed"}

\* C1: the matching is injective on both sides after every step of the
\* scan: no A-identity and no B-identity occurs in two accepted pairs, in
\* the order of acceptance as well as in the assignment map.
C1_Injective ==
    /\ \A p, q \in 1..Len(chose_log) :
          p # q => /\ chose_log[p][1] # chose_log[q][1]
                   /\ chose_log[p][2] # chose_log[q][2]
    /\ \A p, q \in 1..Len(corresps) :
          p # q => /\ corresps[p].a # corresps[q].a
                   /\ corresps[p].b # corresps[q].b
    /\ RowsOf(corresps) = SeqSet(chose_log)

\* A scan that accepted two pairs and rejected at least one.
C1_Witness ==
    /\ pc = "scan"
    /\ i = Len(cost_list)
    /\ Len(chose_log) = 2
    /\ i > 2

\* C2 as stated: the rows of the correspondence table are the accepted
\* pairs in the order of acceptance.
C2_RowsInAcceptanceOrder ==
    Succeeded => corresp_f.rows = chose_log

\* C2, amended: the rows are the accepted pairs, each once, in ascending
\* order of the A-identity (gidA, lidA).
C2_RowsInKeyOrder ==
    /\ pc \in {"print", "done"} /\ corresp_f.created =>
          \A p, q \in 1..Len(corresp_f.rows) :
              p < q => LET x == corresp_f.rows[p][1]
                           y == corresp_f.rows[q][1]
                       IN  x[1] < y[1] \/ (x[1] = y[1] /\ x[2] < y[2])
    /\ Succeeded => /\ SeqSet(corresp_f.rows) = SeqSet(chose_log)
                    /\ Len(corresp_f.rows) = Len(chose_log)

\* Two rows were written and their order is not the order of acceptance.
C2_Witness ==
    /\ Succeeded
    /\ Len(corresp_f.rows) = 2
    /\ corresp_f.rows # chose_log

\* (cost, gidA, lidA, gidB, lidB) of e is not after that of f.
EntryLeq(e, f) ==
    LET x == <<e.cost, e.key[1][1], e.key[1][2], e.key[2][1], e.key[2][2]>>
        y == <<f.cost, f.key[1][1], f.key[1][2], f.key[2][1], f.key[2][2]>>
    IN  \/ x = y
        \/ \E k \in 1..5 : x[k] < y[k] /\ \A j \in 1..(k - 1) : x[j] = y[j]

\* The cost table holds exactly the costs 1, 5, 5, 2 for two primitives per side.
ExampleCosts ==
    /\ NumPrims(prims_mapA) = 2
    /\ NumPrims(prims_mapB) = 2
    /\ LET a == IdsOf(prims_mapA)
           b == IdsOf(prims_mapB)
       IN  SeqSet(costs) = {[key |-> <<a[1], b[1]>>, cost |-> 1],
                            [key |-> <<a[1], b[2]>>, cost |-> 5],
                            [key |-> <<a[2], b[1]>>, cost |-> 5],
                            [key |-> <<a[2], b[2]>>, cost |-> 2]}

\* C3: the least entry of the cost table is the head of the sorted list, it
\* is accepted first and it is in the output; on the costs 1, 5, 5, 2 the
\* matching is {(A0,B0), (A1,B1)}.
C3_CheapestFirst ==
    /\ (pc \in {"scan", "print", "done"} /\ InputRead /\ costs # <<>>) =>
          /\ \A p \in 1..Len(costs) : EntryLeq(cost_list[1], costs[p])
          /\ i >= 1 => /\ chose_log # <<>>
                       /\ chose_log[1] = cost_list[1].key
          /\ Succeeded => cost_list[1].key \in SeqSet(corresp_f.rows)
    /\ (ScanOver /\ ExampleCosts) =>
          LET a == IdsOf(prims_mapA)
              b == IdsOf(prims_mapB)
          IN  RowsOf(corresps) = {<<a[1], b[1]>>, <<a[2], b[2]>>}

C3_Witness ==
    /\ Succeeded
    /\ ExampleCosts
    /\ Len(corresp_f.rows) = 2

EmptyInput == InputRead /\ (NumPrims(prims_mapA) = 0 \/ NumPrims(prims_mapB) = 0)
HeaderOnly == [created |-> TRUE, header |-> TRUE, rows |-> <<>>]

\* C4 as stated: with an empty collection the cost table is empty, no pair is
\* accepted, the file holds the header only and the run ends with success.
C4_EmptyInputSucceeds ==
    (pc = "done" /\ EmptyInput) =>
        /\ costs = <<>>
        /\ chose_log = <<>>
        /\ corresp_f = HeaderOnly
        /\ result = EXIT_SUCCESS

\* C4, amended: with an empty collection the cost table is empty and no pair
\* is accepted; the run ends with success and a header-only file when
\* ./corresp.csv could be opened, and with EXIT_FAILURE and no file otherwise.
C4_EmptyInput ==
    EmptyInput =>
        /\ costs = <<>> /\ cost_list = <<>>
        /\ chose_log = <<>> /\ corresps = <<>>
        /\ pc = "done" => \/ (result = EXIT_SUCCESS /\ corresp_f = HeaderOnly)
                          \/ (result = EXIT_FAILURE /\ corresp_f = NoFile)

\* A has no primitive, B has some, and the run ended with success.
C4_Witness ==
    /\ pc = "done"
    /\ EmptyInput
    /\ NumPrims(prims_mapB) > 0
    /\ result = EXIT_SUCCESS
    /\ corresp_f = HeaderOnly

\* The greedy matching as a function of the set of cost entries alone: take
\* the least entry, drop every entry sharing an identity with it, go on.
RECURSIVE GreedySet(_)
GreedySet(E) ==
    IF E = {} THEN {}
    ELSE LET m == CHOOSE e \in E : \A f \in E : EntryLeq(e, f)
         IN  {m.key} \cup GreedySet({f \in E : /\ f.key[1] # m.key[1]
                                                /\ f.key[2] # m.key[2]})

\* C5: the accepted pairs are a function of the set of (identity pair, cost)
\* entries, equal costs included.
C5_DependsOnlyOnEntries ==
    (ScanOver /\ InputRead) => RowsOf(corresps) = GreedySet(SeqSet(costs))

\* Two pairs matched, and the first choice was between two equal costs of
\* pairs that share an identity.
C5_Witness ==
    /\ Succeeded
    /\ Len(corresps) = 2
    /\ Len(cost_list) = 4
    /\ cost_list[1].cost = cost_list[2].cost
    /\ cost_list[1].key[1] = cost_list[2].key[1]

\* Nothing was read, computed or written.
Untouched ==
    /\ prims_mapA = EmptyMap /\ prims_mapB = EmptyMap
    /\ bi = 0 /\ costs = <<>> /\ cost_list = <<>>
    /\ i = 0 /\ corresps = <<>> /\ chose_log = <<>>
    /\ corresp_f = NoFile

\* C15: the run goes past "parse input" only when all five files exist; a
\* parse step that finds one absent ends the run at once with EXIT_FAILURE,
\* and nothing is read, no cost computed and no output file created.  (The
\* other way out of the start is the usage branch, which returns err.)
C15_RefusesMissingFiles ==
    /\ [](/\ pc \notin {"start", "done"} => exists = RequiredFiles
          /\ exists # RequiredFiles => Untouched /\ pc \in {"start", "done"})
    /\ [][(pc = "start" /\ pc' # "start") =>
            \/ /\ exists' = RequiredFiles
               /\ pc' = "read"
            \/ /\ exists' # RequiredFiles
               /\ pc' = "done"
               /\ result' = EXIT_FAILURE
               /\ Untouched'
            \/ /\ exists' = exists
               /\ pc' = "done"
               /\ result' = EXIT_SUCCESS
               /\ Untouched']_vars

\* Only the cloud file was absent, and the run ended with EXIT_FAILURE.
C15_Witness ==
    /\ pc = "done"
    /\ exists = RequiredFiles \ {"cloud"}
    /\ result = EXIT_FAILURE
    /\ Untouched

\* C16: every pass of the scan looks at the next entry of the sorted list,
\* once; the pair is accepted exactly when its A-identity is not in the used-A
\* set and its B-identity is not in the used-B set; an acceptance adds both
\* identities and records the assignment, a rejection changes nothing.
C16_AcceptIffBothFree ==
    [][(pc = "scan" /\ i' # i) =>
          LET a     == cost_list[i + 1].key[1]
              b     == cost_list[i + 1].key[2]
              free  == a \notin taken_primsA /\ b \notin taken_primsB
              taken == Len(chose_log') = Len(chose_log) + 1
          IN  /\ i' = i + 1
              /\ cost_list' = cost_list
              /\ taken <=> free
              /\ free => /\ taken_primsA' = taken_primsA \cup {a}
                         /\ taken_primsB' = taken_primsB \cup {b}
                         /\ chose_log' = Append(chose_log, <<a, b>>)
                         /\ RowsOf(corresps') = RowsOf(corresps) \cup {<<a, b>>}
                         /\ Len(corresps') = Len(corresps) + 1
              /\ ~free => /\ taken_primsA' = taken_primsA
                          /\ taken_primsB' = taken_primsB
                          /\ chose_log' = chose_log
                          /\ corresps' = corresps]_vars

\* The scan is over; a pair was rejected although its A-identity was never
\* used, its B-identity being taken.
C16_Witness ==
    /\ pc = "scan"
    /\ i = Len(cost_list)
    /\ chose_log # <<>>
    /\ \E p \in 1..Len(cost_list) :
          /\ cost_list[p].key \notin SeqSet(chose_log)
          /\ cost_list[p].key[1] \notin taken_primsA
          /\ cost_list[p].key[2] \in taken_primsB

BuildOver == InputRead /\ pc # "build"

\* C17: the list the scan goes through holds every entry of the cost table
\* exactly once, in ascending order of cost, entries of equal cost in
\* ascending order of (gidA, lidA, gidB, lidB).
C17_SortedList ==
    BuildOver =>
        /\ Len(cost_list) = Len(costs)
        /\ SeqSet(cost_list) = SeqSet(costs)
        /\ \A p, q \in 1..Len(cost_list) :
              p < q => /\ cost_list[p] # cost_list[q]
                       /\ cost_list[p].cost <= cost_list[q].cost
                       /\ cost_list[p].cost = cost_list[q].cost =>
                             CostKeyLess(cost_list[p].key, cost_list[q].key)

\* Four entries: the first two tie on cost, and the third has a larger cost
\* but a smaller key than the second.
C17_Witness ==
    /\ pc = "scan"
    /\ i = 0
    /\ Len(cost_list) = 4
    /\ cost_list[1].cost = cost_list[2].cost
    /\ cost_list[2].cost < cost_list[3].cost
    /\ CostKeyLess(cost_list[3].key, cost_list[2].key)

\* The identities (gid, lid) of a collection: lid from 0 in every group.
IdentitiesOf(m) == UNION {{<<g, l>> : l \in 0..(m[g] - 1)} : g \in Gids}

\* C18: every pass of the build loops adds one entry; when the loops are
\* over the table has one entry for every pair of an A-identity and a
\* B-identity, |A| * |B| in all, no key twice.
C18_OneEntryPerPair ==
    /\ pc = "build" => Len(costs) = bi
    /\ BuildOver =>
          /\ Len(costs) = NumPrims(prims_mapA) * NumPrims(prims_mapB)
          /\ {costs[p].key : p \in 1..Len(costs)} =
                IdentitiesOf(prims_mapA) \X IdentitiesOf(prims_mapB)
          /\ \A p, q \in 1..Len(costs) : p # q => costs[p].key # costs[q].key

\* A has one primitive in each of two groups (both with lid 0), B has two
\* in one group, and the table has four entries.
C18_Witness ==
    /\ BuildOver
    /\ prims_mapA[0] = 1 /\ prims_mapA[1] = 1
    /\ \E g \in Gids : prims_mapB[g] = 2
    /\ Len(costs) = 4

\* C19: the "duplicate choice" diagnostic is never printed: the keys of the
\* assignment map are the used A-identities, so an accepted pair's A-identity
\* is never a key already, and no step removes or changes a recorded
\* correspondence.
C19_NoDuplicateChoice ==
    /\ [](/\ ~dup_diag
          /\ {corresps[p].a : p \in 1..Len(corresps)} = taken_primsA
          /\ {corresps[p].b : p \in 1..Len(corresps)} = taken_primsB
          /\ Len(corresps) = Cardinality(taken_primsA))
    /\ [][RowsOf(corresps) \subseteq RowsOf(corresps')]_vars

\* Two acceptances and two rejections, and no diagnostic.
C19_Witness ==
    /\ pc = "scan"
    /\ i = 4
    /\ Len(corresps) = 2
    /\ Cardinality(taken_primsA) = 2
    /\ ~dup_diag

\* The sum of the costs of a set of cost entries.
RECURSIVE SumCosts(_)
SumCosts(E) ==
    IF E = {} THEN 0
    ELSE LET e == CHOOSE x \in E : TRUE
         IN  e.cost + SumCosts(E \ {e})

\* The sets of n entries of the cost table that share no identity.
InjectiveMatchings(n) ==
    {M \in SUBSET SeqSet(costs) :
        /\ Cardinality(M) = n
        /\ \A e, f \in M : e # f => /\ e.key[1] # f.key[1]
                                     /\ e.key[2] # f.key[2]}

\* The entries of the accepted pairs, and the sum of their costs.
AcceptedEntries == {e \in SeqSet(costs) : e.key \in RowsOf(corresps)}
GreedyCost == SumCosts(AcceptedEntries)

\* The least sum of costs over the injective matchings of n pairs.
MinCost(n) ==
    LET sums == {SumCosts(M) : M \in InjectiveMatchings(n)}
    IN  CHOOSE x \in sums : \A y \in sums : x <= y

\* The cost table holds c00, c01, c10, c11 for (A0,B0), (A0,B1), (A1,B0),
\* (A1,B1), two primitives per side.
CostTableIs(c00, c01, c10, c11) ==
    /\ NumPrims(prims_mapA) = 2
    /\ NumPrims(prims_mapB) = 2
    /\ LET a == IdsOf(prims_mapA)
           b == IdsOf(prims_mapB)
       IN  SeqSet(costs) = {[key |-> <<a[1], b[1]>>, cost |-> c00],
                            [key |-> <<a[1], b[2]>>, cost |-> c01],
                            [key |-> <<a[2], b[1]>>, cost |-> c10],
                            [key |-> <<a[2], b[2]>>, cost |-> c11]}

\* Costs 1, 2, 2, 5: the positions A1 = 0, B0 = 2, A0 = 3, B1 = 5 on a line.
GreedyTrapCosts == CostTableIs(1, 2, 2, 5)

\* Costs 2, 1, 5, 2: the positions B0 = 0, A0 = 2, B1 = 3, A1 = 5 on a line.
\* The cheapest pair is not the first pair of the table.
GreedyTrapCostsLater == CostTableIs(2, 1, 5, 2)

\* C21: the accepted pairs are an injective matching, so their cost is never
\* below the least cost of a matching of that size, and it can be strictly
\* above.  On the costs 1, 2, 2, 5 the scan accepts (A0,B0) and (A1,B1) for a
\* sum of 6, while (A0,B1) and (A1,B0) cost 4; on the costs 2, 1, 5, 2 it
\* accepts (A0,B1) and (A1,B0) for a sum of 6, while (A0,B0) and (A1,B1)
\* cost 4.
C21_GreedyNotOptimal ==
    (ScanOver /\ InputRead) =>
        /\ AcceptedEntries \in InjectiveMatchings(Len(corresps))
        /\ GreedyCost >= MinCost(Len(corresps))
        /\ GreedyTrapCosts =>
              LET a == IdsOf(prims_mapA)
                  b == IdsOf(prims_mapB)
              IN  /\ RowsOf(corresps) = {<<a[1], b[1]>>, <<a[2], b[2]>>}
                  /\ GreedyCost = 6
                  /\ MinCost(2) = 4
        /\ GreedyTrapCostsLater =>
              LET a == IdsOf(prims_mapA)
                  b == IdsOf(prims_mapB)
              IN  /\ RowsOf(corresps) = {<<a[1], b[2]>>, <<a[2], b[1]>>}
                  /\ GreedyCost = 6
                  /\ MinCost(2) = 4

\* The run wrote its table for the costs 1, 2, 2, 5, which positions on a
\* line give, and the accepted pairs cost more than the cheapest matching of
\* two pairs.
C21_Witness ==
    /\ Succeeded
    /\ GreedyTrapCosts
    /\ norms \in NormTables(prims_mapA, prims_mapB)
    /\ Len(corresp_f.rows) = 2
    /\ GreedyCost > MinCost(Len(corresps))

SmallerSide ==
    IF NumPrims(prims_mapA) <= NumPrims(prims_mapB)
    THEN NumPrims(prims_mapA) ELSE NumPrims(prims_mapB)

\* C22: when the scan is over the matching has min(|A|, |B|) pairs and is
\* maximal: no A-identity and B-identity are both unmatched, so every
\* primitive of the smaller collection is matched.
C22_MaximalMatching ==
    (ScanOver /\ InputRead) =>
        /\ Len(corresps) = SmallerSide
        /\ \A a \in IdentitiesOf(prims_mapA), b \in IdentitiesOf(prims_mapB) :
              a \in taken_primsA \/ b \in taken_primsB
        /\ NumPrims(prims_mapA) <= NumPrims(prims_mapB) =>
              taken_primsA = IdentitiesOf(prims_mapA)
        /\ NumPrims(prims_mapB) <= NumPrims(prims_mapA) =>
              taken_primsB = IdentitiesOf(prims_mapB)
        /\ taken_primsA \subseteq IdentitiesOf(prims_mapA)
        /\ taken_primsB \subseteq IdentitiesOf(prims_mapB)

\* A has two primitives in different groups, B has one: one pair was
\* accepted and one A-identity stays unmatched.
C22_Witness ==
    /\ ScanOver
    /\ InputRead
    /\ prims_mapA[0] = 1 /\ prims_mapA[1] = 1
    /\ NumPrims(prims_mapB) = 1
    /\ Len(corresps) = 1
    /\ taken_primsA # IdentitiesOf(prims_mapA)
    /\ taken_primsB = IdentitiesOf(prims_mapB)

\* ------------------------------------------------------------------------
\* Properties of getExtent
\* ------------------------------------------------------------------------

\* C6: once the cache is populated, no step changes it, and every getExtent
\* call returns the cached pair and 0, whatever its arguments.
C6_CacheWins ==
    [][extents.updated =>
          /\ extents' = extents
          /\ \/ (err' = err /\ call' = call /\ on_line_cloud' = on_line_cloud)
             \/ (minMax' = extents.value /\ err' = 0 /\ call'.kind = "hit")]_vars

\* A call on a populated cache whose own arguments hold no inlier.
C6_Witness ==
    /\ call.kind = "hit"
    /\ call.prev = "hit"
    /\ ~call.had_closer
    /\ call.container = <<>>
    /\ extents.updated
    /\ minMax = extents.value
    /\ Len(minMax) = 2
    /\ err = 0

\* C7: on an empty cache getExtent fails exactly when no visited point is
\* strictly closer than the threshold; a failed call leaves the cache empty
\* and the container as it was, so the next call decides afresh.
C7_FailsIffNoInlier ==
    /\ [](call.kind # "none" /\ ~call.cached_before =>
            /\ (err = EXIT_FAILURE) <=> ~call.had_closer
            /\ (call.kind = "fail") <=> ~call.had_closer
            /\ (call.kind = "ok") <=> call.had_closer
            /\ err = EXIT_FAILURE => ~extents.updated
            /\ err # EXIT_FAILURE => err = EXIT_SUCCESS /\ extents.updated)
    /\ [][(call'.kind = "fail" /\ (call' # call \/ err' # err)) =>
            /\ minMax' = minMax
            /\ extents' = extents
            /\ ~extents'.updated]_vars

\* A call that computed the extent right after a call that failed, the
\* failed call having left a non-empty container as it was.
C7_Witness ==
    /\ call.kind = "ok"
    /\ call.prev = "fail"
    /\ call.container # <<>>
    /\ extents.updated

\* The signed position of a point of the line along the line's direction.
AlongLine(p) == Dot(VSub(p, line.pos), line.dir)

\* C20 as stated: the extent a computing call returns (and caches) runs from
\* the projected inlier with the least signed position along the direction to
\* the one with the greatest, so every projected inlier lies between the two
\* endpoints.
C20_ExtentSpansInliers ==
    call.kind = "ok" =>
        /\ \A k \in 1..Len(on_line_cloud) :
              /\ AlongLine(extents.value[1]) <= AlongLine(on_line_cloud[k])
              /\ AlongLine(on_line_cloud[k]) <= AlongLine(extents.value[2])
        /\ \A e \in 1..2 : \E k \in 1..Len(on_line_cloud) :
              extents.value[e] = on_line_cloud[k]

\* A weaker reading that ignores which endpoint comes first: every projected
\* inlier lies on the segment between the two endpoints.
C20_SegmentCoversInliers ==
    call.kind = "ok" =>
        \A k \in 1..Len(on_line_cloud) :
            \/ /\ AlongLine(extents.value[1]) <= AlongLine(on_line_cloud[k])
               /\ AlongLine(on_line_cloud[k]) <= AlongLine(extents.value[2])
            \/ /\ AlongLine(extents.value[2]) <= AlongLine(on_line_cloud[k])
               /\ AlongLine(on_line_cloud[k]) <= AlongLine(extents.value[1])

\* ------------------------------------------------------------------------
\* Properties of draw
\* ------------------------------------------------------------------------

\* C8: draw calls getExtent at most max_it times, the k-th time with
\* threshold radius * 2^(k-1); the loop goes on only after a failure; the
\* fallback is taken exactly when all max_it attempts failed, and a success
\* of the last attempt is drawn.  The loop ends: every pass is one more
\* attempt and leads to the next pass or out of the loop, and no pass starts
\* after max_it attempts.
C8_RetryLoop ==
    /\ [](/\ Len(thr_log) <= max_it
          /\ \A k \in 1..Len(thr_log) : thr_log[k] = dargs.radius * 2^(k - 1)
          /\ dpc = "loop" => /\ Len(minMax) < 2
                             /\ it = Len(thr_log)
                             /\ it < max_it
                             /\ thr_log # <<>> => err = EXIT_FAILURE
          /\ dpc = "after" =>
                \/ (Len(minMax) = 2 /\ err = 0)
                \/ (Len(minMax) < 2 /\ err = EXIT_FAILURE /\ Len(thr_log) = max_it)
          /\ dpc = "drawn" =>
                /\ fallback <=> (Len(thr_log) = max_it /\ call.kind = "fail")
                /\ fallback => segment = minMax /\ mm_div = FallbackDiv
                /\ ~fallback =>
                      /\ mm_div = 1
                      /\ minMax = extents.value
                      /\ segment = <<ToSegment(minMax[1]), ToSegment(minMax[2])>>)
    /\ [][dpc = "loop" => /\ Len(thr_log') = Len(thr_log) + 1
                          /\ dpc' \in {"loop", "after"}
                          /\ dpc' = "loop" => it' = it + 1]_vars

\* The tenth attempt succeeded and its extent is what was drawn.
C8_Witness ==
    /\ dpc = "drawn"
    /\ Len(thr_log) = max_it
    /\ ~fallback
    /\ ~call.cached_before
    /\ segment = <<ToSegment(minMax[1]), ToSegment(minMax[2])>>

\* C9 as stated: after ten failures the segment drawn runs from the position
\* to position + direction.
C9_FallbackUnitLength ==
    (dpc = "drawn" /\ fallback) =>
        segment = <<ToSegment(line.pos), ToSegment(VAdd(line.pos, line.dir))>>

\* The projections of the inliers of draw's last getExtent call, whose
\* threshold is the last entry of thr_log.
InlierProjections ==
    LET v == VisitedPids(dargs.cloud, dargs.indices)
    IN  {projectPoint(line, dargs.cloud[v[k] + 1]) :
            k \in {j \in 1..Len(v) :
                     getDistance(line, dargs.cloud[v[j] + 1]) < thr_log[Len(thr_log)]}}

\* C23: inside draw, after every getExtent call the container holds two
\* points exactly when the call succeeded and none when it failed.  A call
\* that computed the extent gives two projections of inliers, the same point
\* twice when the inliers have one projection only; a call answered from the
\* cache gives the cached pair.  The loop goes on only after a failed call.
C23_TwoEndpoints ==
    (dpc \in {"loop", "after"} /\ thr_log # <<>>) =>
        /\ call.kind \in {"ok", "hit", "fail"}
        /\ Len(minMax) \in {0, 2}
        /\ (err = EXIT_FAILURE) <=> (call.kind = "fail")
        /\ (err = EXIT_FAILURE) <=> (Len(minMax) < 2)
        /\ (err = EXIT_SUCCESS) <=> (Len(minMax) = 2)
        /\ call.kind = "ok" =>
              /\ minMax[1] \in InlierProjections
              /\ minMax[2] \in InlierProjections
              /\ Cardinality(InlierProjections) = 1 => minMax[1] = minMax[2]
              /\ extents.value = minMax
        /\ call.kind = "hit" => minMax = extents.value
        /\ dpc = "loop" => call.kind = "fail"

\* After a failed attempt, a call found two inliers that project to the same
\* point, and both endpoints are that point.
C23_Witness ==
    /\ dpc = "after"
    /\ call.kind = "ok"
    /\ Len(thr_log) > 1
    /\ Len(on_line_cloud) = 2
    /\ Cardinality(InlierProjections) = 1
    /\ Len(minMax) = 2
    /\ minMax[1] = minMax[2]

\* ------------------------------------------------------------------------
\* Properties of generateFrom
\* ------------------------------------------------------------------------
GenCalled == gargs # NoGenArgs

\* C10: the candidate has self's GID, other's DIR_GID and STATUS UNSET.
C10_TagPropagation ==
    GenCalled =>
        /\ out.tags["GID"] = self.tags["GID"]
        /\ out.tags["DIR_GID"] = other.tags["DIR_GID"]
        /\ out.tags["STATUS"] = UNSET

\* self and other differ in GID and DIR_GID, and both carry a set STATUS.
C10_Witness ==
    /\ GenCalled
    /\ gret
    /\ self.tags["GID"] # other.tags["GID"]
    /\ self.tags["DIR_GID"] # other.tags["DIR_GID"]
    /\ self.tags["STATUS"] = ACTIVE
    /\ other.tags["STATUS"] = ACTIVE
    /\ out.tags["STATUS"] = UNSET

\* The two rotation branches of the last call: other.dir turned by
\* angles[closest_angle_id] * angle_multiplier and by the opposite angle.
GenAngle == gargs.angles[gargs.closest_angle_id + 1] * gargs.angle_multiplier
GenD0    == RotateZ(GenAngle, other.dir)
GenD1    == RotateZ(-GenAngle, other.dir)

\* C11: the candidate's direction is one of the two rotation branches, its
\* angle to self's direction is not larger than that of the other branch,
\* and when both branches are equally far the +angle branch is the one taken.
C11_CloserBranch ==
    GenCalled =>
        LET a0 == angleInRad(self.dir, GenD0)
            a1 == angleInRad(self.dir, GenD1)
        IN  /\ out.dir \in {GenD0, GenD1}
            /\ angleInRad(self.dir, out.dir) <= a0
            /\ angleInRad(self.dir, out.dir) <= a1
            /\ a0 = a1 => out.dir = GenD0
            /\ out.dir = GenD1 /\ GenD1 # GenD0 => a1 < a0

\* The -angle branch was strictly closer to self's direction and was taken.
C11_Witness ==
    /\ GenCalled
    /\ GenD0 # GenD1
    /\ angleInRad(self.dir, GenD1) < angleInRad(self.dir, GenD0)
    /\ out.dir = GenD1

\* C12: every call returns true, and the candidate sits at self's position.
C12_SucceedsAtSelf ==
    GenCalled => /\ gret = TRUE
                 /\ out.pos = self.pos

\* A call with self and other at different positions.
C12_Witness ==
    /\ GenCalled
    /\ gret
    /\ self.pos # other.pos
    /\ out.pos = self.pos
    /\ Len(gargs.angles) > 1

\* ------------------------------------------------------------------------
\* Properties of getSpatialSignificance
\* ------------------------------------------------------------------------
SigCalledOnEmpty == sig_args.called /\ sig_args.pop = <<>>

\* C13 as stated: on an empty population the call prints the diagnostic and
\* what it returns is the negative value -1.
C13_SentinelReturned ==
    SigCalledOnEmpty =>
        /\ sig_diag
        /\ \A k \in 1..Len(sig_in) : sig_in[k] = Num(NoPointsValue)

\* What the code does on an empty population: the diagnostic is printed, every
\* entry after the first is 0, and the first is whatever the decomposition of
\* no points gives.
C13_SentinelOverwritten ==
    SigCalledOnEmpty =>
        /\ sig_diag
        /\ \A k \in 2..Len(sig_in) : sig_in[k] = Num(ResetValue)
        /\ sig_in[1] \in {NaN, Num(-1), Num(0), Num(1), Num(2), Num(4)}

\* ------------------------------------------------------------------------
\* Properties of getExtent under concurrent calls
\* ------------------------------------------------------------------------
NoCallInFlight == \A t \in Threads : thr[t].pc = "idle"

\* C14 as stated: once the cache is populated no step of any call replaces
\* its value, so whoever reads it after the first write reads the same value
\* from then on.
C14_StableAfterFirstWrite ==
    [][extents.updated => extents' = extents]_vars

\* C14, amended: once the cache is populated and no call is between its test
\* of the cache and its cache update, the cache keeps its value for good:
\* every later call finds it populated, returns its value and 0, and writes
\* nothing.  The cache is never emptied.
C14_StableOnceQuiet ==
    [][/\ extents.updated => extents'.updated
       /\ (extents.updated /\ NoCallInFlight) =>
             /\ extents' = extents
             /\ NoCallInFlight'
             /\ \A t \in Threads :
                   thr'[t] # thr[t] => /\ thr'[t].mm = extents.value
                                       /\ thr'[t].ret = 0
                                       /\ thr'[t].last = "hit"]_vars

\* Two calls raced, the later write replaced the earlier one, and a call made
\* after both returned the value that is in the cache now.
C14_Witness ==
    /\ extents.updated
    /\ NoCallInFlight
    /\ \E t, u \in Threads :
          /\ thr[t].last = "hit"
          /\ thr[t].mm = extents.value
          /\ thr[u].last = "ok"
          /\ thr[u].mm # extents.value

====
